---- MODULE Spec2Model ----
(***************************************************************************)
(* State-machine model of the attendance backend in src/app.py: the Flask  *)
(* session (a signed cookie held by the client), the login_required guard, *)
(* the handlers of every route, the relational store they read and write,  *)
(* and the text-generation collaborator called by generate_student_report. *)
(***************************************************************************)
EXTENDS Integers, Sequences, FiniteSets, TLC

VARIABLES
    teachers,     \* rows of table teachers
    classes,      \* rows of table classes
    students,     \* rows of table students
    attendance,   \* rows of table attendance
    nextTeacherId,\* serial of teachers.id
    nextClassId,  \* serial of classes.id
    session,      \* the Flask session carried by the client's cookie
    heldToken,    \* the cookie the client held before a logout, until it logs in again
    apiKey,       \* GEMINI_API_KEY is set
    faults,       \* the store may raise errors other than constraint violations
    approved,     \* history: ids of existing teachers approve_teacher completed for
    last          \* the last request: operation, input, response, calls, connection

vars == <<teachers, classes, students, attendance, nextTeacherId, nextClassId,
          session, heldToken, apiKey, faults, approved, last>>

store == <<teachers, classes, students, attendance>>

----------------------------------------------------------------------------
(* Bounds of the model *)

MaxTeacherId == 2
MaxClassId == 2
DaysOnRecord == 31

(* Program constants *)

ReportLimit == 30

----------------------------------------------------------------------------
(* Values *)

None == "None"
RequestRoles == {"admin", "teacher", "student", "other"}
Emails == {"a@x.com", "b@x.com"}
SignupEmails == {"a@x.com", "b@x.com", None}
Identifiers == {"a@x.com", "b@x.com", "admin", "stu1"}
Passwords == {"p", "q"}
TeacherNames == {"A"}
Phones == {"555"}
ClassNames == {"W"}
Salts == {"s1"}
UpstreamFailure == "upstream: quota exceeded"
UpstreamResults == {"R1", "R2", UpstreamFailure}

Min(a, b) == IF a < b THEN a ELSE b

\* An empty dict: session after clear(), and the None of cursor.fetchone().
EmptySession == [k \in {} |-> None]
NoRow == [k \in {} |-> None]

\* werkzeug.security: a salted digest; the plaintext is not the stored value.
generate_password_hash(salt, password) ==
    [method |-> "pbkdf2:sha256", salt |-> salt, digest |-> <<"H", salt, password>>]

check_password_hash(pwhash, password) ==
    pwhash.digest = <<"H", pwhash.salt, password>>

Admins == {[id |-> 1, username |-> "admin",
            password |-> generate_password_hash("s1", "p")]}

InitStudents ==
    {[id |-> 1, name |-> "S1", username |-> "stu1",
      password |-> generate_password_hash("s1", "p"), class_id |-> 1],
     [id |-> 2, name |-> "S2", username |-> "stu2",
      password |-> generate_password_hash("s1", "q"), class_id |-> 1],
     [id |-> 3, name |-> "S3", username |-> "stu3",
      password |-> generate_password_hash("s1", "q"), class_id |-> 1]}

InitClasses == {[id |-> 1, name |-> "X"]}

StatusOn(k, d) ==
    IF (d + k) % 3 = 0 THEN "absent"
    ELSE IF (d + k) % 3 = 1 THEN "present" ELSE "half-day"

\* Student 1 has no rows, student 2 a few, student 3 more than the report reads.
AttendanceTable(k) ==
    {[student_id |-> p[1], date |-> p[2], status |-> StatusOn(k + p[1], p[2])] :
        p \in {q \in {2, 3} \X (1..DaysOnRecord) : q[1] = 2 => q[2] \in {2, 5, 7}}}

StudentIds == {1, 2, 3, 4}

----------------------------------------------------------------------------
(* Responses *)

Response(status, body) == [status |-> status, body |-> body]
Pass == Response(0, [message |-> "pass"])
InternalServerError == Response(500, [error |-> "Internal Server Error"])
InvalidCredentials ==
    Response(401, [message |-> "Invalid credentials or account not approved"])

Request(op, arg, resp, calls, conn) ==
    [op |-> op, arg |-> arg, status |-> resp.status,
     body |-> resp.body, calls |-> calls, conn |-> conn]

----------------------------------------------------------------------------
(* The guard *)

login_required_any_role(role, sess) ==
    IF "user_id" \notin DOMAIN sess
    THEN Response(401, [message |-> "Authentication required"])
    ELSE Pass

login_required(role, sess) ==
    IF "user_id" \notin DOMAIN sess
    THEN Response(401, [message |-> "Authentication required"])
    ELSE IF role # None /\ sess.role # role
    THEN Response(403, [message |-> "Forbidden"])
    ELSE Pass

----------------------------------------------------------------------------
(* Authentication *)

UserRow(id, name, password) == [id |-> id, name |-> name, password |-> password]

login_select_any_teacher(role, username) ==
    IF role = "admin"
    THEN {UserRow(a.id, a.username, a.password) : a \in {a \in Admins : a.username = username}}
    ELSE IF role = "teacher"
    THEN {UserRow(t.id, t.name, t.password) : t \in {t \in teachers : t.email = username}}
    ELSE IF role = "student"
    THEN {UserRow(s.id, s.name, s.password) : s \in {s \in students : s.username = username}}
    ELSE {}

\* The SELECT of the role's table.
login_select(role, username) ==
    IF role = "admin"
    THEN {UserRow(a.id, a.username, a.password) : a \in {a \in Admins : a.username = username}}
    ELSE IF role = "teacher"
    THEN {UserRow(t.id, t.name, t.password) :
            t \in {t \in teachers : t.email = username /\ t.is_approved}}
    ELSE IF role = "student"
    THEN {UserRow(s.id, s.name, s.password) : s \in {s \in students : s.username = username}}
    ELSE {}

fetchone(rows) == IF rows = {} THEN {NoRow} ELSE rows

login_result_telling(user_data, password, role, sess) ==
    IF user_data = NoRow
    THEN [session |-> sess, resp |-> Response(401, [message |-> "Unknown user"])]
    ELSE IF check_password_hash(user_data.password, password)
    THEN LET name == IF role # "admin" THEN user_data.name ELSE "Admin"
         IN  [session |-> [user_id |-> user_data.id, role |-> role, name |-> name],
              resp |-> Response(200, [success |-> TRUE,
                          user |-> [id |-> user_data.id, name |-> name, role |-> role]])]
    ELSE [session |-> sess, resp |-> InvalidCredentials]

\* The session and the response login leaves, given the fetched row.
login_result(user_data, password, role, sess) ==
    IF user_data # NoRow /\ check_password_hash(user_data.password, password)
    THEN LET name == IF role # "admin" THEN user_data.name ELSE "Admin"
         IN  [session |-> [user_id |-> user_data.id, role |-> role, name |-> name],
              resp |-> Response(200, [success |-> TRUE,
                          user |-> [id |-> user_data.id, name |-> name, role |-> role]])]
    ELSE [session |-> sess, resp |-> InvalidCredentials]

login ==
    \E username \in Identifiers, password \in Passwords, role \in RequestRoles :
    \E user_data \in fetchone(login_select(role, username)) :
        LET r == login_result(user_data, password, role, session)
        IN  /\ session' = r.session
            /\ heldToken' = IF r.resp.status = 200 THEN EmptySession ELSE heldToken
            /\ last' = Request("login",
                               [username |-> username, password |-> password, role |-> role],
                               r.resp, <<>>, <<"connect", "execute", "close">>)
            /\ UNCHANGED <<store, nextTeacherId, nextClassId, apiKey, faults, approved>>

\* session.clear()
logout_result(sess) == EmptySession

logout ==
    /\ session' = logout_result(session)
    /\ heldToken' = IF session # EmptySession THEN session ELSE heldToken
    /\ last' = Request("logout", None, Response(200, [success |-> TRUE]), <<>>, <<>>)
    /\ UNCHANGED <<store, nextTeacherId, nextClassId, apiKey, faults, approved>>

check_session_result(sess) ==
    IF "user_id" \in DOMAIN sess
    THEN Response(200, [success |-> TRUE,
                        user |-> [id |-> sess.user_id, name |-> sess.name, role |-> sess.role]])
    ELSE Response(401, [success |-> FALSE])

check_session ==
    /\ last' = Request("check_session", None, check_session_result(session), <<>>, <<>>)
    /\ UNCHANGED <<store, nextTeacherId, nextClassId, session, heldToken, apiKey,
                   faults, approved>>

\* The client sends again the cookie it held before it logged out: the session
\* is the signed cookie itself, and the server keeps no list of ended sessions.
present_held_token ==
    /\ heldToken # EmptySession
    /\ session' = heldToken
    /\ last' = Request("present_held_token", None, Pass, <<>>, <<>>)
    /\ UNCHANGED <<store, nextTeacherId, nextClassId, heldToken, apiKey, faults,
                   approved>>

----------------------------------------------------------------------------
(* The relational store: what the schema makes of a statement *)

\* Errors a statement or a commit raises besides constraint violations.
Faults == IF faults THEN {"none", "execute", "commit"} ELSE {"none"}

IntegrityErrors == {"UniqueViolation", "ForeignKeyViolation"}

ClassIds(cs) == {c.id : c \in cs}

\* teachers.is_approved when the INSERT names no value for it.
is_approved_default == FALSE

\* teachers.email is unique and teachers.class_id references classes.
teachers_insert_error(ts, cs, row) ==
    IF \E t \in ts : t.email = row.email THEN "UniqueViolation"
    ELSE IF row.class_id \notin ClassIds(cs) THEN "ForeignKeyViolation"
    ELSE "ok"

\* teachers.class_id and students.class_id reference classes.
classes_delete_error(class_id, ts, ss) ==
    IF \E t \in ts : t.class_id = class_id THEN "ForeignKeyViolation"
    ELSE IF \E s \in ss : s.class_id = class_id THEN "ForeignKeyViolation"
    ELSE "ok"

\* Alphabetical position of the names in use (ORDER BY name).
NameRank(name) ==
    CASE name = "A" -> 1 [] name = "B" -> 2 [] name = "S1" -> 3 [] name = "S2" -> 4
      [] name = "S3" -> 5 [] name = "W" -> 6 [] name = "X" -> 7 [] name = "Y" -> 8
      [] OTHER -> 9

\* Every listing of rows in ascending name order (rows of equal name in any order).
OrderByName(rows) ==
    {s \in [1..Cardinality(rows) -> rows] :
        /\ \A i, j \in 1..Cardinality(rows) : i # j => s[i] # s[j]
        /\ \A i, j \in 1..Cardinality(rows) :
               i < j => NameRank(s[i].name) <= NameRank(s[j].name)}

RECURSIVE OrderByDateDesc(_)
OrderByDateDesc(rows) ==
    IF rows = {} THEN <<>>
    ELSE LET m == CHOOSE r \in rows : \A q \in rows : q.date <= r.date
         IN  <<m>> \o OrderByDateDesc(rows \ {m})

RECURSIVE OrderByDateAsc(_)
OrderByDateAsc(rows) ==
    IF rows = {} THEN <<>>
    ELSE LET m == CHOOSE r \in rows : \A q \in rows : q.date >= r.date
         IN  <<m>> \o OrderByDateAsc(rows \ {m})

Limit(seq, n) == SubSeq(seq, 1, Min(n, Len(seq)))

----------------------------------------------------------------------------
(* Teacher signup *)

SignupData ==
    {[name |-> name, email |-> email, password |-> "p", class_id |-> class_id,
      phone |-> phone] :
        name \in TeacherNames, email \in SignupEmails,
        class_id \in {0, 2, 9}, phone \in Phones}

signup_teacher_except_passing(err) ==
    IF err \in IntegrityErrors
    THEN Response(201, [message |-> "Signup successful! Please wait for admin approval."])
    ELSE InternalServerError

\* except psycopg2.IntegrityError; any other error leaves the handler.
signup_teacher_except(err) ==
    IF err \in IntegrityErrors
    THEN Response(409, [message |-> "Email address already exists"])
    ELSE InternalServerError

\* The table, the response and the connection's events signup_teacher leaves.
signup_teacher_result(data, salt, fault, id) ==
    IF data.name = None \/ data.email = None \/ data.password = None \/ data.class_id = 0
    THEN [teachers |-> teachers,
          resp |-> Response(400, [message |-> "Missing required fields"]),
          conn |-> <<>>]
    ELSE LET row == [id |-> id, name |-> data.name, email |-> data.email,
                     password |-> generate_password_hash(salt, data.password),
                     class_id |-> data.class_id, phone |-> data.phone,
                     is_approved |-> is_approved_default]
             err == IF fault = "execute" THEN "OperationalError"
                    ELSE teachers_insert_error(teachers, classes, row)
         IN  IF err # "ok"
             THEN [teachers |-> teachers, resp |-> signup_teacher_except(err),
                   conn |-> <<"connect", "execute!", "close">>]
             ELSE IF fault = "commit"
             THEN [teachers |-> teachers, resp |-> signup_teacher_except("OperationalError"),
                   conn |-> <<"connect", "execute", "commit!", "close">>]
             ELSE [teachers |-> teachers \cup {row},
                   resp |-> Response(201,
                       [message |-> "Signup successful! Please wait for admin approval."]),
                   conn |-> <<"connect", "execute", "commit", "close">>]

signup_teacher ==
    /\ nextTeacherId <= MaxTeacherId
    /\ \E data \in SignupData, salt \in Salts, fault \in Faults :
        LET r == signup_teacher_result(data, salt, fault, nextTeacherId)
        IN  /\ teachers' = r.teachers
            /\ nextTeacherId' = IF r.resp.status = 201 THEN nextTeacherId + 1
                                ELSE nextTeacherId
            /\ last' = Request("signup_teacher", data, r.resp, <<>>, r.conn)
            /\ UNCHANGED <<classes, students, attendance, nextClassId, session,
                           heldToken, apiKey, faults, approved>>

----------------------------------------------------------------------------
(* Classes *)

get_classes ==
    \E listing \in OrderByName(classes) :
        /\ last' = Request("get_classes", None, Response(200, [classes |-> listing]),
                           <<>>, <<"connect", "execute", "close">>)
        /\ UNCHANGED <<store, nextTeacherId, nextClassId, session, heldToken, apiKey,
                       faults, approved>>

----------------------------------------------------------------------------
(* Admin routes *)

\* The guard returns before the handler reads the request.
Rejected(op, resp) ==
    /\ last' = Request(op, None, resp, <<>>, <<>>)
    /\ UNCHANGED <<store, nextTeacherId, nextClassId, session, heldToken, apiKey,
                   faults, approved>>

get_pending_teachers ==
    LET g == login_required("admin", session)
        pending == {[id |-> t.id, name |-> t.name, email |-> t.email,
                     phone |-> t.phone, class_name |-> c.name] :
                       <<t, c>> \in {p \in teachers \X classes :
                                       p[1].class_id = p[2].id /\ ~p[1].is_approved}}
    IN  IF g # Pass THEN Rejected("get_pending_teachers", g)
        ELSE /\ last' = Request("get_pending_teachers", None,
                                Response(200, [teachers |-> pending]),
                                <<>>, <<"connect", "execute", "close">>)
             /\ UNCHANGED <<store, nextTeacherId, nextClassId, session, heldToken,
                            apiKey, faults, approved>>

approve_update_toggling(ts, teacher_id) ==
    {IF t.id = teacher_id THEN [t EXCEPT !.is_approved = ~t.is_approved] ELSE t : t \in ts}

\* UPDATE teachers SET is_approved = true WHERE id = teacher_id
approve_update(ts, teacher_id) ==
    {IF t.id = teacher_id THEN [t EXCEPT !.is_approved = TRUE] ELSE t : t \in ts}

approve_teacher_result(teacher_id, fault) ==
    IF fault = "execute"
    THEN [teachers |-> teachers, resp |-> InternalServerError,
          conn |-> <<"connect", "execute!">>]
    ELSE IF fault = "commit"
    THEN [teachers |-> teachers, resp |-> InternalServerError,
          conn |-> <<"connect", "execute", "commit!">>]
    ELSE [teachers |-> approve_update(teachers, teacher_id),
          resp |-> Response(200, [message |-> "Teacher approved successfully"]),
          conn |-> <<"connect", "execute", "commit", "close">>]

approve_teacher ==
    LET g == login_required("admin", session)
    IN  IF g # Pass THEN Rejected("approve_teacher", g)
        ELSE \E teacher_id \in 1..(MaxTeacherId + 1), fault \in Faults :
            LET r == approve_teacher_result(teacher_id, fault)
            IN   /\ teachers' = r.teachers
                 /\ approved' = IF r.resp.status = 200
                                THEN approved \cup ({teacher_id} \cap {t.id : t \in teachers})
                                ELSE approved
                 /\ last' = Request("approve_teacher", teacher_id, r.resp, <<>>, r.conn)
                 /\ UNCHANGED <<classes, students, attendance, nextTeacherId,
                                nextClassId, session, heldToken, apiKey, faults>>

manage_classes_insert(method, name, fault, id) ==
    IF method = "POST" /\ fault = "none" THEN classes \cup {[id |-> id, name |-> name]}
    ELSE classes

manage_classes ==
    \E method \in {"GET", "POST"} :
        LET g == login_required("admin", session)
            op == IF method = "GET" THEN "manage_classes_get" ELSE "manage_classes_post"
        IN  IF g # Pass THEN Rejected(op, g)
            ELSE \E name \in ClassNames, fault \in Faults :
            LET arg == IF method = "GET" THEN None ELSE name
                after == manage_classes_insert(method, name, fault, nextClassId)
            IN   /\ method = "POST" => nextClassId <= MaxClassId
                 /\ classes' = after
                 /\ nextClassId' = IF after # classes THEN nextClassId + 1 ELSE nextClassId
                 /\ IF method = "POST" /\ fault = "execute"
                    THEN last' = Request(op, arg, InternalServerError, <<>>,
                                         <<"connect", "execute!">>)
                    ELSE IF method = "POST" /\ fault = "commit"
                    THEN last' = Request(op, arg, InternalServerError, <<>>,
                                         <<"connect", "execute", "commit!">>)
                    ELSE \E listing \in OrderByName(after) :
                            last' = Request(op, arg, Response(200, [classes |-> listing]), <<>>,
                                     IF method = "POST"
                                     THEN <<"connect", "execute", "commit", "execute", "close">>
                                     ELSE <<"connect", "execute", "close">>)
                 /\ UNCHANGED <<teachers, students, attendance, nextTeacherId, session,
                                heldToken, apiKey, faults, approved>>

delete_class_except_falling_through(err) ==
    Response(200, [message |-> "Class deleted"])

\* except psycopg2.Error as e
delete_class_except(err) ==
    Response(400, [message |-> "Cannot delete class, it may be in use. DB Error: ",
                   error |-> err])

\* The table, the response and the connection's events delete_class leaves.
delete_class_result(class_id, fault) ==
    LET err == IF fault = "execute" THEN "OperationalError"
               ELSE classes_delete_error(class_id, teachers, students)
    IN  IF err # "ok"
        THEN [classes |-> classes, resp |-> delete_class_except(err),
              conn |-> <<"connect", "execute!", "rollback", "close">>]
        ELSE IF fault = "commit"
        THEN [classes |-> classes, resp |-> delete_class_except("OperationalError"),
              conn |-> <<"connect", "execute", "commit!", "rollback", "close">>]
        ELSE [classes |-> {c \in classes : c.id # class_id},
              resp |-> Response(200, [message |-> "Class deleted"]),
              conn |-> <<"connect", "execute", "commit", "close">>]

delete_class ==
    LET g == login_required("admin", session)
    IN  IF g # Pass THEN Rejected("delete_class", g)
        ELSE \E class_id \in 1..MaxClassId, fault \in Faults :
            LET r == delete_class_result(class_id, fault)
            IN   /\ classes' = r.classes
                 /\ last' = Request("delete_class", class_id, r.resp, <<>>, r.conn)
                 /\ UNCHANGED <<teachers, students, attendance, nextTeacherId,
                                nextClassId, session, heldToken, apiKey, faults,
                                approved>>

----------------------------------------------------------------------------
(* Teacher routes *)

get_teacher_class ==
    LET g == login_required("teacher", session)
        found == {c \in classes : \E t \in teachers :
                                     t.id = session.user_id /\ c.id = t.class_id}
    IN  IF g # Pass THEN Rejected("get_teacher_class", g)
        ELSE /\ \E class_info \in fetchone(found) :
                  IF class_info = NoRow
                  THEN last' = Request("get_teacher_class", None,
                                 Response(404, [message |-> "Could not find assigned class"]),
                                 <<>>, <<"connect", "execute">>)
                  ELSE \E roster \in OrderByName({s \in students : s.class_id = class_info.id}) :
                          last' = Request("get_teacher_class", None,
                                    Response(200,
                                      [class |-> class_info,
                                       students |-> [i \in DOMAIN roster |->
                                           [id |-> roster[i].id, name |-> roster[i].name,
                                            username |-> roster[i].username]]]),
                                    <<>>, <<"connect", "execute", "execute", "close">>)
             /\ UNCHANGED <<store, nextTeacherId, nextClassId, session, heldToken,
                            apiKey, faults, approved>>

----------------------------------------------------------------------------
(* The report *)

\* f"{record[0]}: {record[1]}"
DateStatus(record) == [date |-> record.date, colon |-> ": ", status |-> record.status]

\* ", ".join(items)
RECURSIVE Join(_)
Join(items) ==
    IF Len(items) = 0 THEN <<>>
    ELSE IF Len(items) = 1 THEN items
    ELSE <<items[1], [sep |-> ", "]>> \o Join(Tail(items))

Prompt(student_name, attendance_str) ==
    [instructions |-> "As a helpful teacher's assistant, analyze ... (2-4 sentences)",
     student |-> student_name, data |-> attendance_str]

attendance_select_ascending(student_id) ==
    Limit(OrderByDateAsc({a \in attendance : a.student_id = student_id}), ReportLimit)

\* SELECT date, status FROM attendance WHERE student_id = %s ORDER BY date DESC LIMIT 30
attendance_select(student_id) ==
    Limit(OrderByDateDesc({a \in attendance : a.student_id = student_id}), ReportLimit)

no_attendance_records_unchecked(attendance_records) == FALSE

\* if not attendance_records
no_attendance_records(attendance_records) == attendance_records = <<>>

\* The response, the collaborator calls and the connection's events of the body.
generate_student_report_result(key, student_id, upstream) ==
    IF ~key
    THEN [resp |-> Response(500,
              [message |-> "Gemini API key is not configured on the server."]),
          calls |-> <<>>, conn |-> <<>>]
    ELSE LET name_rows == {s \in students : s.id = student_id}
         IN  IF name_rows = {}
             THEN [resp |-> Response(404, [message |-> "Student not found"]),
                   calls |-> <<>>, conn |-> <<"connect", "execute">>]
             ELSE LET student_name == (CHOOSE s \in name_rows : TRUE).name
                      attendance_records == attendance_select(student_id)
                      attendance_str == Join([i \in DOMAIN attendance_records |->
                                                DateStatus(attendance_records[i])])
                      prompt == Prompt(student_name, attendance_str)
                  IN  IF no_attendance_records(attendance_records)
                      THEN [resp |-> Response(200,
                                [report |-> <<student_name,
                                              " has no recent attendance records.">>]),
                            calls |-> <<>>,
                            conn |-> <<"connect", "execute", "execute", "close">>]
                      ELSE IF upstream = UpstreamFailure
                      THEN [resp |-> Response(500,
                                [message |-> "Failed to generate report due to an AI service error: ",
                                 error |-> upstream]),
                            calls |-> <<prompt>>,
                            conn |-> <<"connect", "execute", "execute", "close">>]
                      ELSE [resp |-> Response(200, [report |-> upstream]),
                            calls |-> <<prompt>>,
                            conn |-> <<"connect", "execute", "execute", "close">>]

generate_student_report ==
    LET g == login_required("teacher", session)
    IN  IF g # Pass THEN Rejected("generate_student_report", g)
        ELSE \E student_id \in StudentIds, upstream \in UpstreamResults :
            LET arg == [student_id |-> student_id, upstream |-> upstream]
                r == generate_student_report_result(apiKey, student_id, upstream)
            IN   /\ last' = Request("generate_student_report", arg, r.resp, r.calls, r.conn)
                 /\ UNCHANGED <<store, nextTeacherId, nextClassId, session, heldToken,
                                apiKey, faults, approved>>

----------------------------------------------------------------------------

InitCommon ==
    /\ teachers = {}
    /\ classes = InitClasses
    /\ students = InitStudents
    /\ attendance = AttendanceTable(0)
    /\ nextTeacherId = 1
    /\ nextClassId = 2
    /\ session = EmptySession
    /\ heldToken = EmptySession
    /\ apiKey \in BOOLEAN
    /\ approved = {}
    /\ last = [op |-> "start", arg |-> None, status |-> 0,
               body |-> [message |-> "pass"], calls |-> <<>>, conn |-> <<>>]

Init == InitCommon /\ faults = FALSE

InitFaults == InitCommon /\ faults = TRUE

Next ==
    \/ login
    \/ logout
    \/ check_session
    \/ present_held_token
    \/ signup_teacher
    \/ get_classes
    \/ get_pending_teachers
    \/ approve_teacher
    \/ manage_classes
    \/ delete_class
    \/ get_teacher_class
    \/ generate_student_report

Spec == Init /\ [][Next]_vars

SpecFaults == InitFaults /\ [][Next]_vars

----------------------------------------------------------------------------
(* Properties *)

AdminOps == {"get_pending_teachers", "approve_teacher", "manage_classes_get",
             "manage_classes_post", "delete_class"}
RestrictedOps == {"get_pending_teachers", "approve_teacher", "manage_classes_get",
                  "manage_classes_post", "delete_class", "get_teacher_class",
                  "generate_student_report"}
RequiredRole(op) == IF op \in AdminOps THEN "admin" ELSE "teacher"
HasSession(sess) == "user_id" \in DOMAIN sess
HasRole(sess, role) == HasSession(sess) /\ sess.role = role
Range(seq) == {seq[i] : i \in DOMAIN seq}

\* C1: on every role-restricted endpoint a request without a session gets 401
\* and one whose session has another role gets 403, and in both cases the body
\* does not run: no connection is opened, no collaborator call is made, and
\* the store and the session are left as they were.
C1_GuardRejectsBeforeBody ==
    [][last'.op \in RestrictedOps /\ ~HasRole(session, RequiredRole(last'.op)) =>
          /\ last'.status = IF HasSession(session) THEN 403 ELSE 401
          /\ last'.conn = <<>>
          /\ last'.calls = <<>>
          /\ UNCHANGED <<store, session>>]_vars

C1_Witness ==
    /\ last.op = "generate_student_report"
    /\ last.status = 403
    /\ HasRole(session, "admin")

\* C2: a signed-up teacher is unapproved until approve_teacher completes for
\* its id; until then a teacher login with its email and password gets 401 and
\* no session of that teacher exists, and afterwards that login gets 200 and
\* leaves a session with role teacher and the teacher's id.
C2_ApprovalGatesTeacherLogin ==
    /\ \A t \in teachers : t.is_approved <=> t.id \in approved
    /\ \A t \in teachers :
          t.id \notin approved => ~(HasRole(session, "teacher") /\ session.user_id = t.id)
    /\ last.op = "login" /\ last.arg.role = "teacher" =>
          \A t \in teachers :
              t.email = last.arg.username
                  /\ check_password_hash(t.password, last.arg.password) =>
                  IF t.id \in approved
                  THEN /\ last.status = 200
                       /\ session = [user_id |-> t.id, role |-> "teacher", name |-> t.name]
                  ELSE last.status = 401

C2_Witness ==
    /\ last.op = "login"
    /\ last.status = 200
    /\ HasRole(session, "teacher")
    /\ session.user_id \in approved

\* The rows of a role's table a login may match, whatever their approval.
Accounts(role) ==
    IF role = "admin"
    THEN {[ident |-> a.username, password |-> a.password, ok |-> TRUE] : a \in Admins}
    ELSE IF role = "teacher"
    THEN {[ident |-> t.email, password |-> t.password, ok |-> t.is_approved] : t \in teachers}
    ELSE IF role = "student"
    THEN {[ident |-> x.username, password |-> x.password, ok |-> TRUE] : x \in students}
    ELSE {}

LoginFailureCause(arg) ==
    LET rows == {a \in Accounts(arg.role) : a.ident = arg.username}
    IN  IF rows = {} THEN "no row"
        ELSE IF \E a \in rows : ~a.ok THEN "unapproved"
        ELSE IF \E a \in rows : ~check_password_hash(a.password, arg.password)
        THEN "hash mismatch"
        ELSE "none"

AllFieldsPresent(data) ==
    data.name # None /\ data.email # None /\ data.password # None /\ data.class_id # 0

EmailTaken(email) == \E t \in teachers : t.email = email

InsertsTheSignup(data) ==
    \E row \in teachers' :
        /\ row \notin teachers
        /\ teachers' = teachers \cup {row}
        /\ row.name = data.name /\ row.email = data.email
        /\ check_password_hash(row.password, data.password)
        /\ row.class_id = data.class_id /\ row.phone = data.phone
        /\ ~row.is_approved

\* C4 as stated: of two signups with one email and all required fields the
\* first gets 201 and inserts a row, the second gets 409 and inserts nothing.
C4_AsStated ==
    [][last'.op = "signup_teacher" /\ AllFieldsPresent(last'.arg) =>
          IF EmailTaken(last'.arg.email)
          THEN last'.status = 409 /\ teachers' = teachers
          ELSE last'.status = 201 /\ InsertsTheSignup(last'.arg)]_vars

\* C4: of two signups with one email and all required fields, the first, when
\* it names an existing class, gets 201 and inserts one unapproved row with its
\* fields; the second gets 409 and inserts nothing; no two rows share an email.
C4_DuplicateEmailRejected ==
    /\ [](\A e \in Emails : Cardinality({t \in teachers : t.email = e}) <= 1)
    /\ [][last'.op = "signup_teacher" /\ AllFieldsPresent(last'.arg) =>
            IF EmailTaken(last'.arg.email)
            THEN last'.status = 409 /\ teachers' = teachers
            ELSE last'.arg.class_id \in ClassIds(classes) =>
                    last'.status = 201 /\ InsertsTheSignup(last'.arg)]_vars

C4_Witness ==
    /\ last.op = "signup_teacher"
    /\ last.status = 409
    /\ \E t \in teachers : t.email = last.arg.email
    /\ last.arg.class_id \in ClassIds(classes)

ClassReferenced(class_id) ==
    \/ \E t \in teachers : t.class_id = class_id
    \/ \E x \in students : x.class_id = class_id

\* C5: delete_class by an admin on a class nothing references gets 200 and
\* removes that row alone; on a referenced class it gets 400 and leaves every
\* row of every table; a listing of the classes shows the rows of the table.
C5_DeleteClassRespectsReferences ==
    /\ [](last.op \in {"get_classes", "manage_classes_get"} /\ last.status = 200 =>
            Range(last.body.classes) = classes)
    /\ [][last'.op = "delete_class" /\ HasRole(session, "admin") =>
            IF ClassReferenced(last'.arg)
            THEN last'.status = 400 /\ UNCHANGED store
            ELSE /\ last'.status = 200
                 /\ classes' = {c \in classes : c.id # last'.arg}
                 /\ UNCHANGED <<teachers, students, attendance>>]_vars

C5_Witness ==
    /\ last.op = "delete_class"
    /\ last.status = 400
    /\ last.arg \in ClassIds(classes)
    /\ \E t \in teachers : t.class_id = last.arg

\* C6: approve_teacher by an admin gets 200 for any id and leaves the teacher of
\* that id approved and the other rows as they were; called again for the same
\* id right after, it gets 200 and leaves the store as the first call left it.
C6_ApproveIdempotent ==
    [][last'.op = "approve_teacher" /\ HasRole(session, "admin") =>
          /\ last'.status = 200
          /\ \A t \in teachers' : t.id = last'.arg => t.is_approved
          /\ {t \in teachers' : t.id # last'.arg} = {t \in teachers : t.id # last'.arg}
          /\ {t.id : t \in teachers'} = {t.id : t \in teachers}
          /\ UNCHANGED <<classes, students, attendance>>
          /\ (last.op = "approve_teacher" /\ last.status = 200 /\ last.arg = last'.arg =>
                UNCHANGED store)]_vars

C6_Witness ==
    /\ last.op = "approve_teacher"
    /\ last.status = 200
    /\ \E t \in teachers : t.id = last.arg /\ t.is_approved
    /\ \E t \in teachers : t.id # last.arg /\ ~t.is_approved

StudentExists(student_id) == \E x \in students : x.id = student_id
RowsOf(student_id) == {a \in attendance : a.student_id = student_id}
NameOf(student_id) == (CHOOSE x \in students : x.id = student_id).name
NoRecordsReport(student_id) ==
    [report |-> <<NameOf(student_id), " has no recent attendance records.">>]

ReportRan == last.op = "generate_student_report" /\ HasRole(session, "teacher")

\* C7 as stated: for an existing student without attendance rows the report is
\* 200 with the canned sentence and no collaborator call; the collaborator is
\* called only when rows were fetched.
C7_AsStated ==
    ReportRan =>
        /\ StudentExists(last.arg.student_id) /\ RowsOf(last.arg.student_id) = {} =>
              last.status = 200 /\ last.body = NoRecordsReport(last.arg.student_id)
                  /\ last.calls = <<>>
        /\ last.calls # <<>> => RowsOf(last.arg.student_id) # {}

\* C7: with the API key configured, the report for an existing student without
\* attendance rows is 200 with the canned sentence; with or without the key no
\* collaborator call is made for it, the collaborator being called only when
\* rows were fetched.
C7_NoRowsNoCall ==
    ReportRan =>
        /\ StudentExists(last.arg.student_id) /\ RowsOf(last.arg.student_id) = {} =>
              /\ last.calls = <<>>
              /\ apiKey => last.status = 200
                              /\ last.body = NoRecordsReport(last.arg.student_id)
        /\ last.calls # <<>> => RowsOf(last.arg.student_id) # {}

C7_Witness ==
    /\ ReportRan
    /\ last.arg.student_id = 1
    /\ last.status = 200
    /\ last.body = NoRecordsReport(1)

\* The "date: status" items of a prompt's data part: every other token of it.
PromptItems(prompt) ==
    [i \in 1..((Len(prompt.data) + 1) \div 2) |-> prompt.data[2 * i - 1]]

PromptSeparated(prompt) ==
    /\ Len(prompt.data) % 2 = 1
    /\ \A i \in 1..(Len(prompt.data) \div 2) : prompt.data[2 * i] = [sep |-> ", "]

\* The prompt names the student and lists the student's latest rows, at most
\* ReportLimit of them, once each, latest first, and no other row.
PromptListsLatest(prompt, student_id) ==
    LET items == PromptItems(prompt)
        rows == RowsOf(student_id)
        listed == {r \in rows : \E i \in DOMAIN items :
                       items[i] = [date |-> r.date, colon |-> ": ", status |-> r.status]}
    IN  /\ prompt.student = NameOf(student_id)
        /\ PromptSeparated(prompt)
        /\ Len(items) = Min(Cardinality(rows), ReportLimit)
        /\ \A i, j \in DOMAIN items : i < j => items[i].date > items[j].date
        /\ \A i \in DOMAIN items :
              [student_id |-> student_id, date |-> items[i].date,
               status |-> items[i].status] \in rows
        /\ Cardinality(listed) = Len(items)
        /\ \A r \in listed, q \in rows \ listed : q.date < r.date

C9_LogoutEndsSession ==
    /\ last.op = "logout" => last.status = 200 /\ session = EmptySession
    /\ heldToken # EmptySession
            /\ (last.op \in RestrictedOps \/ last.op = "check_session") =>
          last.status = 401

WriteOps == {"signup_teacher", "approve_teacher", "manage_classes_post", "delete_class"}
Raised(conn) == \E i \in DOMAIN conn : conn[i] \in {"execute!", "commit!"}

\* C10: when the store raises during the statement or the commit of a write
\* endpoint, the transaction is rolled back and the connection released after
\* that, before the response.
C10_RollbackThenRelease ==
    last.op \in WriteOps /\ Raised(last.conn) =>
        \E i, j \in DOMAIN last.conn :
            i < j /\ last.conn[i] = "rollback" /\ last.conn[j] = "close"

====
